---- MODULE Spec2Model ----
(***************************************************************************)
(* Model of the C++ expense tracker (src/cpp_expense_tracker): the SQLite  *)
(* store behind class Database, the data access layer (class Models), the  *)
(* business layer (class ExpenseOperations), the validation and console    *)
(* helpers (class Utils) and the menu loop of main.                        *)
(*                                                                         *)
(* Strings are sequences of one-character strings, so that trimming,       *)
(* lower-casing, pattern matching and SQLite's byte-wise text comparison   *)
(* are computed as the code computes them.  Amounts are exact integers     *)
(* (the unit is immaterial); floating-point rounding is not modelled.      *)
(***************************************************************************)
EXTENDS Integers, Sequences, FiniteSets, TLC

VARIABLES
    opened,      \* Database::db != nullptr
    schema,      \* the three tables exist in the store
    Users,       \* table Users: set of [id, name]
    Categories,  \* table Categories: set of [id, name]
    Expenses,    \* table Expenses: set of rows
    clock,       \* seconds elapsed on the system clock since StartSecond
    ret,         \* the last call: its arguments and what it returned or threw
    resolved,    \* history: the names successful recordExpense calls were
                 \* given, each with the id the first such call stored
    alive,       \* the Database object has been constructed and not destroyed
    closes,      \* sqlite3_close calls made on the object's connection
    cin,         \* standard input: the lines not yet read
    pc           \* where main is: "caller" while the classes are called
                 \* directly, else "getMenuChoice", "main" or "exit"

vars ==
    <<opened, schema, Users, Categories, Expenses, clock, ret, resolved, alive,
      closes, cin, pc>>
tables == <<Users, Categories, Expenses>>
handle == <<opened, alive, closes>>
console == <<cin, pc>>

-----------------------------------------------------------------------------
(* Bounds of the model *)

MaxExpenses == 2
MaxTicks == 1
MaxSummaryLen == 3

-----------------------------------------------------------------------------
(* Characters and strings *)

\* The characters the model uses, in increasing byte value (ASCII).
Alphabet ==
    <<"\t", "\n", "\r", " ", "-", "/",
      "0", "1", "2", "3", "4", "5", "6", "7", "8", "9", ":",
      "A", "B", "E", "F", "H", "O", "P", "S", "T", "U",
      "a", "b", "c", "d", "e", "f", "g", "h", "i", "l", "m", "n", "o", "p",
      "r", "s", "t", "u", "x", "y">>

Code(c) == CHOOSE i \in 1..Len(Alphabet) : Alphabet[i] = c

Digits == {"0", "1", "2", "3", "4", "5", "6", "7", "8", "9"}

DigitVal(c) == Code(c) - Code("0")

Whitespace == {" ", "\t", "\n", "\r"}

Upper == <<"A", "B", "E", "F", "H", "O", "P", "S", "T", "U">>
Lower == <<"a", "b", "e", "f", "h", "o", "p", "s", "t", "u">>

\* std::string::find_first_not_of(" \t\n\r"); 0 stands for npos
FindFirstNotOf(s) ==
    IF \E i \in 1..Len(s) : s[i] \notin Whitespace
    THEN CHOOSE i \in 1..Len(s) :
            /\ s[i] \notin Whitespace
            /\ \A j \in 1..(i - 1) : s[j] \in Whitespace
    ELSE 0

\* std::string::find_last_not_of(" \t\n\r"); 0 stands for npos
FindLastNotOf(s) ==
    IF \E i \in 1..Len(s) : s[i] \notin Whitespace
    THEN CHOOSE i \in 1..Len(s) :
            /\ s[i] \notin Whitespace
            /\ \A j \in (i + 1)..Len(s) : s[j] \in Whitespace
    ELSE 0

\* The trimming idiom of models.cpp: erase(0, first); erase(last + 1).
\* erase(0, npos) empties the string; npos + 1 wraps to 0.
EraseTrim(s) ==
    LET first == FindFirstNotOf(s)
        t == IF first = 0 THEN <<>> ELSE SubSeq(s, first, Len(s))
    IN  SubSeq(t, 1, FindLastNotOf(t))

\* Utils::trim
trim(str) ==
    LET first == FindFirstNotOf(str)
    IN  IF first = 0 THEN <<>>
        ELSE SubSeq(str, first, FindLastNotOf(str))

ToLowerChar(c) ==
    IF \E i \in 1..Len(Upper) : Upper[i] = c
    THEN Lower[CHOOSE i \in 1..Len(Upper) : Upper[i] = c]
    ELSE c

\* Utils::toLower
toLower(str) == [i \in 1..Len(str) |-> ToLowerChar(str[i])]

\* SQLite's BINARY collation on TEXT: memcmp on the common prefix, then length.
RECURSIVE TextLess(_, _)
TextLess(a, b) ==
    IF b = <<>> THEN FALSE
    ELSE IF a = <<>> THEN TRUE
    ELSE IF Head(a) # Head(b) THEN Code(Head(a)) < Code(Head(b))
    ELSE TextLess(Tail(a), Tail(b))

TextLeq(a, b) == a = b \/ TextLess(a, b)

-----------------------------------------------------------------------------
(* Utils: validation *)

\* std::regex ^\d{4}-\d{2}-\d{2}$ under regex_match
MatchesDatePattern(date) ==
    /\ Len(date) = 10
    /\ \A i \in {1, 2, 3, 4, 6, 7, 9, 10} : date[i] \in Digits
    /\ date[5] = "-"
    /\ date[8] = "-"

\* operator>> into an int, on the digits at positions i and i + 1
TwoDigits(date, i) == 10 * DigitVal(date[i]) + DigitVal(date[i + 1])

validateDate(date) ==
    IF ~MatchesDatePattern(date) THEN FALSE
    ELSE LET month == TwoDigits(date, 6)
             day == TwoDigits(date, 9)
         IN  IF month < 1 \/ month > 12 THEN FALSE
             ELSE IF day < 1 \/ day > 31 THEN FALSE
             ELSE TRUE

\* A check that lets zero through
validateAmountNonNegative(amount) == amount >= 0

validateAmount(amount) == amount > 0

\* A check for the empty string that does not trim first
validateNonEmptyUntrimmed(value) == value # <<>>

validateNonEmpty(value) == trim(value) # <<>>

-----------------------------------------------------------------------------
(* Database *)

\* Database::Database: when sqlite3_open fails the constructor closes the handle
\* itself and leaves db null.  rc_ok: sqlite3_open returned SQLITE_OK.
Database(rc_ok) ==
    IF rc_ok THEN [opened |-> TRUE, closes |-> 0]
    ELSE [opened |-> FALSE, closes |-> 1]

\* A destructor without the null check
DatabaseDestructorUnguarded(db_open, closed) ==
    [opened |-> FALSE, closes |-> closed + 1]

\* Database::~Database: closes the connection when db is not null
DatabaseDestructor(db_open, closed) ==
    IF db_open THEN [opened |-> FALSE, closes |-> closed + 1]
    ELSE [opened |-> db_open, closes |-> closed]

StartSecond == 58

DigitChar(v) == Alphabet[Code("0") + v]

TwoChars(v) == <<DigitChar(v \div 10), DigitChar(v % 10)>>

\* Database::getCurrentTimestamp: local time as YYYY-MM-DD HH:MM:SS, one-second
\* resolution.  The model's clock runs within one day.
getCurrentTimestamp ==
    LET t == StartSecond + clock
    IN  <<"2", "0", "2", "5", "-", "1", "0", "-", "2", "5", " ">>
        \o TwoChars((t \div 3600) % 24) \o <<":">>
        \o TwoChars((t \div 60) % 60) \o <<":">>
        \o TwoChars(t % 60)

sFood == <<"F", "o", "o", "d">>
sOther == <<"O", "t", "h", "e", "r">>

\* default_categories[] of Database::initialize
default_categories ==
    << sFood,
       <<"T", "r", "a", "n", "s", "p", "o", "r", "t", "a", "t", "i", "o", "n">>,
       <<"E", "n", "t", "e", "r", "t", "a", "i", "n", "m", "e", "n", "t">>,
       <<"U", "t", "i", "l", "i", "t", "i", "e", "s">>,
       <<"H", "e", "a", "l", "t", "h", "c", "a", "r", "e">>,
       <<"S", "h", "o", "p", "p", "i", "n", "g">>,
       sOther >>

Ids(rows) == {r.id : r \in rows}

\* INTEGER PRIMARY KEY AUTOINCREMENT: one more than the largest id ever used.
\* No row is ever deleted and a failed statement uses no id.
NextId(rows) ==
    IF rows = {} THEN 1
    ELSE 1 + CHOOSE m \in Ids(rows) : \A i \in Ids(rows) : i <= m

\* name TEXT UNIQUE NOT NULL (Users and Categories)
UniqueViolationNone(rows, name) == FALSE

UniqueViolation(rows, name) == \E r \in rows : r.name = name

\* FOREIGN KEY (category_id) REFERENCES Categories (id),
\* FOREIGN KEY (user_id) REFERENCES Users (id), with PRAGMA foreign_keys = ON
ForeignKeyViolationNone(cats, users, category_id, user_id) == FALSE

ForeignKeyViolation(cats, users, category_id, user_id) ==
    category_id \notin Ids(cats) \/ user_id \notin Ids(users)

\* A plain INSERT that the UNIQUE constraint does not stop
InsertAlways(cats, name) ==
    cats \cup {[id |-> NextId(cats), name |-> name]}

\* INSERT OR IGNORE INTO Categories (name) VALUES (...)
InsertOrIgnore(cats, name) ==
    IF UniqueViolation(cats, name) THEN cats
    ELSE cats \cup {[id |-> NextId(cats), name |-> name]}

RECURSIVE SeedFrom(_, _)
SeedFrom(cats, i) ==
    IF i > Len(default_categories) THEN cats
    ELSE SeedFrom(InsertOrIgnore(cats, default_categories[i]), i + 1)

-----------------------------------------------------------------------------
(* Results of calls *)

EmptySummary ==
    [total |-> 0, count |-> 0, by_category |-> <<>>, by_user |-> <<>>,
     user_expenses |-> <<>>]

\* status: "ok", or the class of the exception thrown; what: its message;
\* cause: the class of the exception a catch block wrapped, if any
Ok(value) == [status |-> "ok", what |-> "", value |-> value, cause |-> ""]
Throw(kind, what) == [status |-> kind, what |-> what, value |-> 0, cause |-> ""]
Wrap(prefix, inner) ==
    [status |-> "runtime_error", what |-> prefix, value |-> 0,
     cause |-> inner.status]

Ret(op, args, res) ==
    [op |-> op, args |-> args, status |-> res.status, what |-> res.what,
     value |-> res.value, cause |-> res.cause,
     rows |-> <<>>, summary |-> EmptySummary]

-----------------------------------------------------------------------------
(* Utils: console input *)

\* The largest int
IntMax == 2147483647

\* The number of digits s starts with
LeadingDigits(s) ==
    CHOOSE n \in 0..Len(s) :
        /\ \A i \in 1..n : s[i] \in Digits
        /\ n = Len(s) \/ s[n + 1] \notin Digits

RECURSIVE DigitsValue(_)
DigitsValue(s) ==
    IF s = <<>> THEN 0
    ELSE 10 * DigitsValue(SubSeq(s, 1, Len(s) - 1)) + DigitVal(s[Len(s)])

\* std::stoi(str): leading whitespace is skipped, a sign is taken, then the
\* digits up to the first character that is none; what follows is ignored.
\* No digit: std::invalid_argument.  Beyond int: std::out_of_range.
stoi(str) ==
    LET first == FindFirstNotOf(str)
        s == IF first = 0 THEN <<>> ELSE SubSeq(str, first, Len(str))
        signed == s # <<>> /\ s[1] \in {"+", "-"}
        body == IF signed THEN Tail(s) ELSE s
        n == LeadingDigits(body)
        magnitude == DigitsValue(SubSeq(body, 1, n))
        value == IF signed /\ s[1] = "-" THEN 0 - magnitude ELSE magnitude
    IN  IF n = 0 THEN Throw("invalid_argument", "stoi")
        ELSE IF value > IntMax \/ value < 0 - IntMax - 1
        THEN Throw("out_of_range", "stoi")
        ELSE Ok(value)

\* Utils::getUserInput on the lines left on standard input: std::getline
\* takes the next line; at end of input it fails and input stays empty
getUserInput(lines) ==
    IF lines = <<>> THEN [input |-> trim(<<>>), rest |-> lines]
    ELSE [input |-> trim(Head(lines)), rest |-> Tail(lines)]

\* One pass of the while (true) loop of Utils::getMenuChoice: the choice is
\* returned, or a message is printed and the loop goes round
getMenuChoice(max_choice, lines) ==
    LET read == getUserInput(lines)
        choice == stoi(read.input)
    IN  [returned |-> /\ choice.status = "ok"
                      /\ choice.value >= 0 /\ choice.value <= max_choice,
         choice |-> choice.value,
         rest |-> read.rest]

-----------------------------------------------------------------------------
(* Models: the data access layer, as functions of the tables *)

\* sqlite3_prepare_v2 fails when the table does not exist
CanPrepare == schema

\* Models::createUser: the outcome and the Users table after the call
createUser(users, name) ==
    IF ~opened
    THEN [res |-> Throw("runtime_error", "Database not connected"), users |-> users]
    ELSE LET trimmed_name == EraseTrim(name) IN
         IF trimmed_name = <<>>
         THEN [res |-> Throw("invalid_argument", "User name cannot be empty"),
               users |-> users]
         ELSE IF ~CanPrepare
         THEN [res |-> Throw("runtime_error", "Failed to prepare statement"),
               users |-> users]
         ELSE IF UniqueViolation(users, trimmed_name)
         THEN [res |-> Throw("runtime_error", "Failed to insert user"),
               users |-> users]
         ELSE [res |-> Ok(NextId(users)),
               users |-> users \cup {[id |-> NextId(users), name |-> trimmed_name]}]

\* Models::getUserByName: the optional as a set of at most one row
getUserByName(users, name) ==
    IF ~opened \/ ~CanPrepare THEN {}
    ELSE {u \in users : u.name = name}

\* Models::createCategory: the outcome and the Categories table after the call
createCategory(cats, name) ==
    IF ~opened
    THEN [res |-> Throw("runtime_error", "Database not connected"), cats |-> cats]
    ELSE IF ~CanPrepare
    THEN [res |-> Throw("runtime_error", "Failed to prepare statement"), cats |-> cats]
    ELSE IF UniqueViolation(cats, name)
    THEN [res |-> Throw("runtime_error", "Failed to insert category"), cats |-> cats]
    ELSE [res |-> Ok(NextId(cats)),
          cats |-> cats \cup {[id |-> NextId(cats), name |-> name]}]

\* Models::getCategoryByName
getCategoryByName(cats, name) ==
    IF ~opened \/ ~CanPrepare THEN {}
    ELSE {c \in cats : c.name = name}

\* An insertExpense that checks neither the title nor the amount
insertExpenseUnchecked(exps, cats, users, date, category_id, title, amount, user_id) ==
    IF ~opened
    THEN [res |-> Throw("runtime_error", "Database not connected"), exps |-> exps]
    ELSE IF ~CanPrepare
    THEN [res |-> Throw("runtime_error", "Failed to prepare statement"),
          exps |-> exps]
    ELSE IF ForeignKeyViolation(cats, users, category_id, user_id)
    THEN [res |-> Throw("runtime_error", "Failed to insert expense"),
          exps |-> exps]
    ELSE [res |-> Ok(NextId(exps)),
          exps |-> exps \cup
              {[id |-> NextId(exps), date |-> date,
                category_id |-> category_id, title |-> EraseTrim(title),
                amount |-> amount, created_at |-> getCurrentTimestamp,
                user_id |-> user_id]}]

\* Models::insertExpense: the outcome and the Expenses table after the call
insertExpense(exps, cats, users, date, category_id, title, amount, user_id) ==
    IF ~opened
    THEN [res |-> Throw("runtime_error", "Database not connected"), exps |-> exps]
    ELSE LET trimmed_title == EraseTrim(title) IN
         IF trimmed_title = <<>>
         THEN [res |-> Throw("invalid_argument", "Expense title cannot be empty"),
               exps |-> exps]
         ELSE IF amount <= 0
         THEN [res |-> Throw("invalid_argument", "Expense amount must be positive"),
               exps |-> exps]
         ELSE IF ~CanPrepare
         THEN [res |-> Throw("runtime_error", "Failed to prepare statement"),
               exps |-> exps]
         ELSE IF ForeignKeyViolation(cats, users, category_id, user_id)
         THEN [res |-> Throw("runtime_error", "Failed to insert expense"),
               exps |-> exps]
         ELSE [res |-> Ok(NextId(exps)),
               exps |-> exps \cup
                   {[id |-> NextId(exps), date |-> date,
                     category_id |-> category_id, title |-> trimmed_title,
                     amount |-> amount, created_at |-> getCurrentTimestamp,
                     user_id |-> user_id]}]

\* The optional arguments of fetchExpensesByFilters (nullptr or a pointer) are
\* sets of at most one value: {} is nullptr.
NoFilters ==
    [min_date |-> {}, max_date |-> {}, min_amount |-> {}, max_amount |-> {},
     category_ids |-> {}, user_id |-> {}]

\* The WHERE clause: one AND-ed condition for each argument that is supplied;
\* a category list that is supplied but empty adds none.
WhereStrict(e, f) ==
    /\ \A d \in f.min_date : TextLess(d, e.date)
    /\ \A d \in f.max_date : TextLess(e.date, d)
    /\ \A a \in f.min_amount : e.amount > a
    /\ \A a \in f.max_amount : e.amount < a
    /\ \A ids \in f.category_ids :
           ids = <<>> \/ \E i \in 1..Len(ids) : ids[i] = e.category_id
    /\ \A u \in f.user_id : e.user_id = u

\* An IN () with no value for an empty list, which no row satisfies
WhereEmptyIn(e, f) ==
    /\ \A d \in f.min_date : TextLeq(d, e.date)
    /\ \A d \in f.max_date : TextLeq(e.date, d)
    /\ \A a \in f.min_amount : e.amount >= a
    /\ \A a \in f.max_amount : e.amount <= a
    /\ \A ids \in f.category_ids :
           \E i \in 1..Len(ids) : ids[i] = e.category_id
    /\ \A u \in f.user_id : e.user_id = u

Where(e, f) ==
    /\ \A d \in f.min_date : TextLeq(d, e.date)
    /\ \A d \in f.max_date : TextLeq(e.date, d)
    /\ \A a \in f.min_amount : e.amount >= a
    /\ \A a \in f.max_amount : e.amount <= a
    /\ \A ids \in f.category_ids :
           ids = <<>> \/ \E i \in 1..Len(ids) : ids[i] = e.category_id
    /\ \A u \in f.user_id : e.user_id = u

\* One fetched Expense: the seven selected columns; category_id and user_id keep
\* the values of the default constructor.
FetchedExpense(e, c, u) ==
    [id |-> e.id, date |-> e.date, title |-> e.title, amount |-> e.amount,
     created_at |-> e.created_at, category_id |-> 0, user_id |-> 0,
     category_name |-> c.name, user_name |-> u.name]

\* FROM Expenses e JOIN Categories c ON ... JOIN Users u ON ... WHERE ...
SelectJoin(exps, cats, users, f) ==
    {FetchedExpense(e, c, u) : <<e, c, u>> \in
        {t \in exps \X cats \X users :
            /\ t[1].category_id = t[2].id
            /\ t[1].user_id = t[3].id
            /\ Where(t[1], f)}}

\* ORDER BY e.date DESC, e.created_at DESC: a before b is allowed
OrderByAscending(a, b) ==
    \/ TextLess(a.date, b.date)
    \/ a.date = b.date /\ TextLeq(a.created_at, b.created_at)

OrderBy(a, b) ==
    \/ TextLess(b.date, a.date)
    \/ a.date = b.date /\ TextLeq(b.created_at, a.created_at)

\* The orders in which the engine may return the rows: rows that tie on both
\* sort keys come in an order SQL leaves open.
Orderings(rows) ==
    LET n == Cardinality(rows)
    IN  {s \in [1..n -> rows] :
            /\ \A i, j \in 1..n : i # j => s[i] # s[j]
            /\ \A i, j \in 1..n : i < j => OrderBy(s[i], s[j])}

\* Models::fetchExpensesByFilters: the vectors the call may return
fetchExpensesByFilters(exps, cats, users, f) ==
    IF ~opened \/ ~CanPrepare THEN {<<>>}
    ELSE Orderings(SelectJoin(exps, cats, users, f))

\* ORDER BY name on a table whose names are unique
RECURSIVE OrderByName(_)
OrderByName(rows) ==
    IF rows = {} THEN <<>>
    ELSE LET first == CHOOSE r \in rows :
                          \A q \in rows : TextLeq(r.name, q.name)
         IN  <<first>> \o OrderByName(rows \ {first})

\* Models::getAllUsers
getAllUsers(users) ==
    IF ~opened \/ ~CanPrepare THEN <<>>
    ELSE OrderByName(users)

\* Models::getAllCategories
getAllCategories(cats) ==
    IF ~opened \/ ~CanPrepare THEN <<>>
    ELSE OrderByName(cats)

-----------------------------------------------------------------------------
(* ExpenseOperations: the business layer *)

\* The five checks at the head of recordExpense: the message thrown, or "".
recordExpenseValidation(date, category, title, amount, user_name) ==
    IF ~validateDate(date) THEN "Invalid date format"
    ELSE IF ~validateAmount(amount) THEN "Amount must be positive"
    ELSE IF ~validateNonEmpty(title) THEN "Title cannot be empty"
    ELSE IF ~validateNonEmpty(user_name) THEN "User name cannot be empty"
    ELSE IF ~validateNonEmpty(category) THEN "Category cannot be empty"
    ELSE ""

\* recordExpense after validation: get or create the user, get or create the
\* category, insert the expense.  Each statement commits on its own.
recordExpenseWrite(date, category, title, amount, user_name) ==
    LET user_opt == getUserByName(Users, user_name)
        cu == IF user_opt # {}
              THEN [res |-> Ok((CHOOSE u \in user_opt : TRUE).id), users |-> Users]
              ELSE createUser(Users, user_name)
    IN  IF cu.res.status # "ok"
        THEN [res |-> Wrap("Failed to create user", cu.res),
              users |-> cu.users, cats |-> Categories, exps |-> Expenses]
        ELSE
        LET category_opt == getCategoryByName(Categories, category)
            cc == IF category_opt # {}
                  THEN [res |-> Ok((CHOOSE c \in category_opt : TRUE).id),
                        cats |-> Categories]
                  ELSE createCategory(Categories, category)
        IN  IF cc.res.status # "ok"
            THEN [res |-> Wrap("Failed to create category", cc.res),
                  users |-> cu.users, cats |-> cc.cats, exps |-> Expenses]
            ELSE
            LET ie == insertExpense(Expenses, cc.cats, cu.users, date,
                                    cc.res.value, title, amount, cu.res.value)
            IN  [res |-> IF ie.res.status = "ok" THEN ie.res
                         ELSE Wrap("Failed to record expense", ie.res),
                 users |-> cu.users, cats |-> cc.cats, exps |-> ie.exps]

\* A recordExpense that validates only after it has written
recordExpenseWriteFirst(date, category, title, amount, user_name) ==
    LET invalid == recordExpenseValidation(date, category, title, amount, user_name)
        w == recordExpenseWrite(date, category, title, amount, user_name)
    IN  IF invalid # ""
        THEN [res |-> Throw("invalid_argument", invalid),
              users |-> w.users, cats |-> w.cats, exps |-> w.exps]
        ELSE w

\* ExpenseOperations::recordExpense: the outcome and the tables after the call
recordExpense(date, category, title, amount, user_name) ==
    LET invalid == recordExpenseValidation(date, category, title, amount, user_name)
    IN  IF invalid # ""
        THEN [res |-> Throw("invalid_argument", invalid),
              users |-> Users, cats |-> Categories, exps |-> Expenses]
        ELSE recordExpenseWrite(date, category, title, amount, user_name)

\* A fetch that keeps the expenses of the first user only
viewAllExpensesOfFirstUser ==
    fetchExpensesByFilters(Expenses, Categories, Users,
                           [NoFilters EXCEPT !.user_id = {1}])

\* ExpenseOperations::viewAllExpenses: the vectors the call may return
viewAllExpenses == fetchExpensesByFilters(Expenses, Categories, Users, NoFilters)

\* = where the code has +=
AddToOverwrite(map, key, amount) ==
    [k \in DOMAIN map \cup {key} |-> IF k = key THEN amount ELSE map[k]]

\* map operator[] followed by +=: a missing key is inserted as 0.0 first
AddTo(map, key, amount) ==
    IF key \in DOMAIN map
    THEN [map EXCEPT ![key] = @ + amount]
    ELSE [k \in DOMAIN map \cup {key} |-> IF k = key THEN 0 + amount ELSE map[k]]

\* push to the front where the code has push_back
PushToFront(map, key, expense) ==
    IF key \in DOMAIN map
    THEN [map EXCEPT ![key] = <<expense>> \o @]
    ELSE [k \in DOMAIN map \cup {key} |->
             IF k = key THEN <<expense>> ELSE map[k]]

\* map operator[] followed by push_back
PushTo(map, key, expense) ==
    IF key \in DOMAIN map
    THEN [map EXCEPT ![key] = Append(@, expense)]
    ELSE [k \in DOMAIN map \cup {key} |->
             IF k = key THEN <<expense>> ELSE map[k]]

\* A loop that stops one element early
RECURSIVE SumAmountsShort(_, _, _)
SumAmountsShort(total, exp_list, i) ==
    IF i >= Len(exp_list) THEN total
    ELSE SumAmountsShort(total + exp_list[i].amount, exp_list, i + 1)

\* for (const auto& expense : exp_list) summary.total += expense.amount;
RECURSIVE SumAmounts(_, _, _)
SumAmounts(total, exp_list, i) ==
    IF i > Len(exp_list) THEN total
    ELSE SumAmounts(total + exp_list[i].amount, exp_list, i + 1)

RECURSIVE GroupByCategory(_, _, _)
GroupByCategory(by_category, exp_list, i) ==
    IF i > Len(exp_list) THEN by_category
    ELSE GroupByCategory(
             AddTo(by_category, exp_list[i].category_name, exp_list[i].amount),
             exp_list, i + 1)

RECURSIVE GroupByUser(_, _, _)
GroupByUser(by_user, exp_list, i) ==
    IF i > Len(exp_list) THEN by_user
    ELSE GroupByUser(AddTo(by_user, exp_list[i].user_name, exp_list[i].amount),
                     exp_list, i + 1)

RECURSIVE CollectByUser(_, _, _)
CollectByUser(user_expenses, exp_list, i) ==
    IF i > Len(exp_list) THEN user_expenses
    ELSE CollectByUser(PushTo(user_expenses, exp_list[i].user_name, exp_list[i]),
                       exp_list, i + 1)

\* ExpenseOperations::calculateSummary on the list it works on
calculateSummary(exp_list) ==
    IF exp_list = <<>> THEN EmptySummary
    ELSE [total |-> SumAmounts(0, exp_list, 1),
          count |-> Len(exp_list),
          by_category |-> GroupByCategory(<<>>, exp_list, 1),
          by_user |-> GroupByUser(<<>>, exp_list, 1),
          user_expenses |-> CollectByUser(<<>>, exp_list, 1)]

\* category_lookup[Utils::toLower(cat.name)] = cat.id, for the categories from
\* position i on: a later category replaces an earlier one under the same key
RECURSIVE BuildLookup(_, _, _)
BuildLookup(category_lookup, all_categories, i) ==
    IF i > Len(all_categories) THEN category_lookup
    ELSE LET key == toLower(all_categories[i].name)
         IN  BuildLookup(
                 [k \in DOMAIN category_lookup \cup {key} |->
                     IF k = key THEN all_categories[i].id
                     ELSE category_lookup[k]],
                 all_categories, i + 1)

\* The ids the given names are found under, in the order of the names
RECURSIVE FindCategoryIds(_, _, _, _)
FindCategoryIds(category_ids, category_lookup, categories, i) ==
    IF i > Len(categories) THEN category_ids
    ELSE LET lower_name == toLower(categories[i])
         IN  FindCategoryIds(
                 IF lower_name \in DOMAIN category_lookup
                 THEN Append(category_ids, category_lookup[lower_name])
                 ELSE category_ids,
                 category_lookup, categories, i + 1)

\* ExpenseOperations::viewExpensesByCategory: the vectors the call may return
viewExpensesByCategory(categories) ==
    IF categories = <<>> THEN {<<>>}
    ELSE LET all_categories == getAllCategories(Categories)
             category_lookup == BuildLookup(<<>>, all_categories, 1)
             category_ids == FindCategoryIds(<<>>, category_lookup, categories, 1)
         IN  IF category_ids = <<>> THEN {<<>>}
             ELSE fetchExpensesByFilters(Expenses, Categories, Users,
                      [NoFilters EXCEPT !.category_ids = {category_ids}])

\* ExpenseOperations::viewExpensesByDate: an empty string stands for no bound
viewExpensesByDate(min_date, max_date) ==
    fetchExpensesByFilters(Expenses, Categories, Users,
        [NoFilters EXCEPT
            !.min_date = IF min_date = <<>> THEN {} ELSE {min_date},
            !.max_date = IF max_date = <<>> THEN {} ELSE {max_date}])

\* Both bounds passed on whatever their sign
viewExpensesByAmountAlways(min_amount, max_amount) ==
    fetchExpensesByFilters(Expenses, Categories, Users,
        [NoFilters EXCEPT !.min_amount = {min_amount},
                          !.max_amount = {max_amount}])

\* ExpenseOperations::viewExpensesByAmount: a bound that is not positive stands
\* for no bound
viewExpensesByAmount(min_amount, max_amount) ==
    fetchExpensesByFilters(Expenses, Categories, Users,
        [NoFilters EXCEPT
            !.min_amount = IF min_amount > 0 THEN {min_amount} ELSE {},
            !.max_amount = IF max_amount > 0 THEN {max_amount} ELSE {}])

\* ExpenseOperations::viewExpensesByUser: the outcome and the vectors the call
\* may return
viewExpensesByUser(user_id) ==
    IF user_id <= 0
    THEN [res |-> Throw("invalid_argument", "User ID must be positive"),
          rows |-> {<<>>}]
    ELSE [res |-> Ok(0),
          rows |-> fetchExpensesByFilters(Expenses, Categories, Users,
                       [NoFilters EXCEPT !.user_id = {user_id}])]

-----------------------------------------------------------------------------
(* The calls, as actions *)

\* Database::Database: sqlite3_open succeeded or failed; the store is new
Init ==
    /\ \E rc_ok \in BOOLEAN :
           /\ opened = Database(rc_ok).opened
           /\ closes = Database(rc_ok).closes
    /\ alive = TRUE
    /\ cin = <<>>
    /\ pc = "caller"
    /\ schema = FALSE
    /\ Users = {}
    /\ Categories = {}
    /\ Expenses = {}
    /\ clock = 0
    /\ ret = Ret("Database", <<>>, Ok(0))
    /\ resolved = {}

\* Database::initialize
Initialize ==
    /\ schema' = (opened \/ schema)
    /\ Categories' = IF opened THEN SeedFrom(Categories, 1) ELSE Categories
    /\ ret' = Ret("initialize", <<>>, Ok(IF opened THEN 1 ELSE 0))
    /\ UNCHANGED <<handle, console, Users, Expenses, clock, resolved>>

\* One second passes on the system clock
Tick ==
    /\ clock < MaxTicks
    /\ clock' = clock + 1
    /\ UNCHANGED <<handle, console, schema, Users, Categories, Expenses, ret,
                   resolved>>

CreateUser(name) ==
    LET r == createUser(Users, name)
    IN  /\ Users' = r.users
        /\ ret' = Ret("createUser", [name |-> name], r.res)
        /\ UNCHANGED <<handle, console, schema, Categories, Expenses, clock,
                       resolved>>

CreateCategory(name) ==
    LET r == createCategory(Categories, name)
    IN  /\ Categories' = r.cats
        /\ ret' = Ret("createCategory", [name |-> name], r.res)
        /\ UNCHANGED <<handle, console, schema, Users, Expenses, clock,
                       resolved>>

InsertExpense(date, category_id, title, amount, user_id) ==
    LET r == insertExpense(Expenses, Categories, Users, date, category_id,
                           title, amount, user_id)
    IN  /\ Cardinality(r.exps) <= MaxExpenses
        /\ Expenses' = r.exps
        /\ ret' = Ret("insertExpense",
                      [date |-> date, category_id |-> category_id,
                       title |-> title, amount |-> amount, user_id |-> user_id],
                      r.res)
        /\ UNCHANGED <<handle, console, schema, Users, Categories, clock,
                       resolved>>

\* The history of successful recordExpense calls: a name is entered once, with
\* the ids of the row the call inserted.
Remember(table, name, id) ==
    IF \E h \in resolved : h.table = table /\ h.name = name THEN {}
    ELSE {[table |-> table, name |-> name, id |-> id]}

RecordExpense(date, category, title, amount, user_name) ==
    LET r == recordExpense(date, category, title, amount, user_name)
        row == CHOOSE e \in r.exps : e.id = r.res.value
    IN  /\ Cardinality(r.exps) <= MaxExpenses
        /\ Users' = r.users
        /\ Categories' = r.cats
        /\ Expenses' = r.exps
        /\ ret' = Ret("recordExpense",
                      [date |-> date, category |-> category, title |-> title,
                       amount |-> amount, user_name |-> user_name],
                      r.res)
        /\ resolved' =
               IF r.res.status # "ok" THEN resolved
               ELSE resolved \cup Remember("Users", user_name, row.user_id)
                             \cup Remember("Categories", category, row.category_id)
        /\ UNCHANGED <<handle, console, schema, clock>>

FetchExpensesByFilters(f) ==
    /\ \E rows \in fetchExpensesByFilters(Expenses, Categories, Users, f) :
           ret' = [Ret("fetchExpensesByFilters", f, Ok(0)) EXCEPT !.rows = rows]
    /\ UNCHANGED <<handle, console, schema, Users, Categories, Expenses,
                   clock, resolved>>

\* calculateSummary(db, expenses): expenses is {} for nullptr, or {list}
CalculateSummary(expenses) ==
    /\ \E exp_list \in (IF expenses = {} THEN viewAllExpenses ELSE expenses) :
           ret' = [Ret("calculateSummary", expenses, Ok(0))
                       EXCEPT !.summary = calculateSummary(exp_list)]
    /\ UNCHANGED <<handle, console, schema, Users, Categories, Expenses,
                   clock, resolved>>

ValidateDate(date) ==
    /\ ret' = Ret("validateDate", date, Ok(IF validateDate(date) THEN 1 ELSE 0))
    /\ UNCHANGED <<handle, console, schema, Users, Categories, Expenses,
                   clock, resolved>>

ViewExpensesByCategory(categories) ==
    /\ \E rows \in viewExpensesByCategory(categories) :
           ret' = [Ret("viewExpensesByCategory", categories, Ok(0))
                       EXCEPT !.rows = rows]
    /\ UNCHANGED <<handle, console, schema, Users, Categories, Expenses,
                   clock, resolved>>

\* What a call that reads leaves in ret: the outcome and the rows returned
Returned(op, args, res, rows) == [Ret(op, args, res) EXCEPT !.rows = rows]

\* std::optional as a vector of at most one element
OptionalRows(opt) == IF opt = {} THEN <<>> ELSE <<CHOOSE r \in opt : TRUE>>

GetAllUsers ==
    /\ \E rows \in {getAllUsers(Users)} :
           ret' = Returned("getAllUsers", <<>>, Ok(0), rows)
    /\ UNCHANGED <<handle, console, schema, Users, Categories, Expenses,
                   clock, resolved>>

GetAllCategories ==
    /\ \E rows \in {getAllCategories(Categories)} :
           ret' = Returned("getAllCategories", <<>>, Ok(0), rows)
    /\ UNCHANGED <<handle, console, schema, Users, Categories, Expenses,
                   clock, resolved>>

GetUserByName(name) ==
    /\ \E rows \in {OptionalRows(getUserByName(Users, name))} :
           ret' = Returned("getUserByName", [name |-> name], Ok(0), rows)
    /\ UNCHANGED <<handle, console, schema, Users, Categories, Expenses,
                   clock, resolved>>

GetCategoryByName(name) ==
    /\ \E rows \in {OptionalRows(getCategoryByName(Categories, name))} :
           ret' = Returned("getCategoryByName", [name |-> name], Ok(0), rows)
    /\ UNCHANGED <<handle, console, schema, Users, Categories, Expenses,
                   clock, resolved>>

ViewExpensesByDate(min_date, max_date) ==
    /\ \E rows \in viewExpensesByDate(min_date, max_date) :
           ret' = Returned("viewExpensesByDate",
                           [min_date |-> min_date, max_date |-> max_date],
                           Ok(0), rows)
    /\ UNCHANGED <<handle, console, schema, Users, Categories, Expenses,
                   clock, resolved>>

ViewExpensesByAmount(min_amount, max_amount) ==
    /\ \E rows \in viewExpensesByAmount(min_amount, max_amount) :
           ret' = Returned("viewExpensesByAmount",
                           [min_amount |-> min_amount,
                            max_amount |-> max_amount],
                           Ok(0), rows)
    /\ UNCHANGED <<handle, console, schema, Users, Categories, Expenses,
                   clock, resolved>>

ViewExpensesByUser(user_id) ==
    LET r == viewExpensesByUser(user_id)
    IN  /\ \E rows \in r.rows :
               ret' = Returned("viewExpensesByUser", [user_id |-> user_id],
                               r.res, rows)
        /\ UNCHANGED <<handle, console, schema, Users, Categories, Expenses,
                       clock,
                       resolved>>

ViewAllExpenses ==
    /\ \E rows \in viewAllExpenses :
           ret' = Returned("viewAllExpenses", <<>>, Ok(0), rows)
    /\ UNCHANGED <<handle, console, schema, Users, Categories, Expenses,
                   clock, resolved>>

\* The Database object leaves scope, normally or while an exception unwinds
Destroy ==
    /\ alive
    /\ alive' = FALSE
    /\ opened' = DatabaseDestructor(opened, closes).opened
    /\ closes' = DatabaseDestructor(opened, closes).closes
    /\ UNCHANGED <<console, schema, Users, Categories, Expenses, clock, ret,
                   resolved>>

\* Utils::getMenuChoice, one pass of its loop at a time
GetMenuChoice(max_choice) ==
    /\ pc = "getMenuChoice"
    /\ LET r == getMenuChoice(max_choice, cin)
       IN  /\ cin' = r.rest
           /\ pc' = IF r.returned THEN "main" ELSE "getMenuChoice"
           /\ ret' = IF r.returned
                     THEN Ret("getMenuChoice", [max_choice |-> max_choice],
                              Ok(r.choice))
                     ELSE ret
    /\ UNCHANGED <<handle, schema, Users, Categories, Expenses, clock, resolved>>

\* main, choice == 0: break out of the loop and return 0
MainExit ==
    /\ pc = "main"
    /\ ret.value = 0
    /\ pc' = "exit"
    /\ UNCHANGED <<handle, cin, schema, Users, Categories, Expenses, clock, ret,
                   resolved>>

\* main, choice != 0: the screen chosen reads some of the lines that are left,
\* the pause reads on, and the loop shows the menu again.  Only what the
\* screen does to standard input is kept here.
MainDispatch ==
    /\ pc = "main"
    /\ ret.value # 0
    /\ \E k \in 0..Len(cin) : cin' = SubSeq(cin, k + 1, Len(cin))
    /\ pc' = "getMenuChoice"
    /\ UNCHANGED <<handle, schema, Users, Categories, Expenses, clock, ret,
                   resolved>>

-----------------------------------------------------------------------------
(* The inputs the specifications draw from *)

sAl == <<"A", "l">>
sAlPadded == <<" ", "A", "l">>
sBo == <<"B", "o">>
sPet == <<"P", "e", "t">>
sBlank == <<" ">>
sLunch == <<"x">>
sLunchPadded == <<"x", " ">>

Date(y, m, d) == y \o <<"-">> \o m \o <<"-">> \o d

y2025 == <<"2", "0", "2", "5">>
d20251020 == Date(y2025, <<"1", "0">>, <<"2", "0">>)
d20251025 == Date(y2025, <<"1", "0">>, <<"2", "5">>)
dSlashes == y2025 \o <<"/", "1", "0", "/", "2", "5">>

\* an id no row has (the tests use the same value)
UnknownId == 99999

UserNames == {sAl, sAlPadded, sBlank}
CategoryNames == {sFood, sPet, sBlank}
Titles == {sLunchPadded, sBlank}
Amounts == {0, 10}
RecordDates == {d20251020, dSlashes}

Next ==
    \/ Initialize
    \/ \E name \in UserNames : CreateUser(name)
    \/ \E name \in CategoryNames : CreateCategory(name)
    \/ \E category_id \in {1, UnknownId}, title \in {sLunch, sBlank},
          amount \in Amounts, user_id \in {1, UnknownId} :
          InsertExpense(d20251025, category_id, title, amount, user_id)
    \/ \E date \in RecordDates, category \in CategoryNames, title \in Titles,
          amount \in Amounts, user_name \in UserNames :
          RecordExpense(date, category, title, amount, user_name)

Spec == Init /\ [][Next]_vars

\* Unfiltered views of a store that recordExpense fills while the clock runs
NextView ==
    \/ Initialize
    \/ Tick
    \/ \E date \in {d20251020, d20251025}, user_name \in {sAl, sBo} :
          RecordExpense(date, sFood, sLunch, 10, user_name)
    \/ FetchExpensesByFilters(NoFilters)

SpecView == Init /\ [][NextView]_vars

\* A store with two users, the default categories and one more, and up to
\* MaxFetchExpenses expenses inserted within one second
FetchUsers == {[id |-> 1, name |-> sAl], [id |-> 2, name |-> sBo]}
FetchCategories == SeedFrom({}, 1) \cup {[id |-> 8, name |-> sPet]}

MaxFetchExpenses == 2

FetchStores ==
    UNION {
        {{[id |-> i, date |-> f[i][1], category_id |-> f[i][2], title |-> sLunch,
           amount |-> f[i][3], created_at |-> getCurrentTimestamp,
           user_id |-> f[i][4]] : i \in 1..n} :
         f \in [1..n -> {d20251020, d20251025} \X {1, 8} \X {10, 20} \X {1, 2}]}
        : n \in 0..MaxFetchExpenses}

InitFetch ==
    /\ opened = Database(TRUE).opened
    /\ closes = Database(TRUE).closes
    /\ alive = TRUE
    /\ cin = <<>>
    /\ pc = "caller"
    /\ schema = TRUE
    /\ Users = FetchUsers
    /\ Categories = FetchCategories
    /\ clock = 0
    /\ Expenses \in FetchStores
    /\ ret = Ret("Database", <<>>, Ok(0))
    /\ resolved = {}

Filters ==
    [min_date : {{}, {d20251025}},
     max_date : {{}, {d20251020}},
     min_amount : {{}, {20}},
     max_amount : {{}, {10}},
     category_ids : {{}, {<<>>}, {<<1>>}, {<<8, 1>>}},
     user_id : {{}, {2}}]

\* One filtered fetch on each such store
NextFetch ==
    /\ ret.op = "Database"
    /\ \E f \in Filters : FetchExpensesByFilters(f)

SpecFetch == InitFetch /\ [][NextFetch]_vars

\* Expense values as a caller may pass them to calculateSummary
SummaryExpenses ==
    {FetchedExpense([id |-> 1, date |-> d20251020, title |-> sLunch,
                     amount |-> a, created_at |-> <<>>], c, u) :
        a \in {5, 10}, c \in {[name |-> sFood], [name |-> sPet]},
        u \in {[name |-> sAl], [name |-> sBo]}}

SummaryLists ==
    UNION {[1..n -> SummaryExpenses] : n \in 0..MaxSummaryLen}

\* One calculateSummary call on a new store, with a list or without
NextSummary ==
    /\ ret.op = "Database"
    /\ \/ \E exp_list \in SummaryLists : CalculateSummary({exp_list})
       \/ CalculateSummary({})

SpecSummary == Init /\ [][NextSummary]_vars

\* Strings offered to validateDate
Years == {y2025, <<"2", "0", "2", "4">>, <<"1", "9", "0", "0">>,
          <<"2", "0", "0", "0">>}

DateInputs ==
    {Date(y, TwoChars(m), TwoChars(d)) : y \in Years, m \in 0..13, d \in 0..32}
    \cup {<<>>, dSlashes,
          y2025 \o <<"-", "1", "0", "-", "5">>,
          y2025 \o <<"-", "1", "-", "2", "5">>,
          <<"2", "5", "-", "1", "0", "-", "2", "0", "2", "5">>,
          <<" ">> \o d20251025,
          d20251025 \o <<"\n">>,
          <<"n", "o", "t", "-", "a", "-", "d", "a", "t", "e">>}

\* One validateDate call
NextDate ==
    /\ ret.op = "Database"
    /\ \E date \in DateInputs : ValidateDate(date)

SpecDate == Init /\ [][NextDate]_vars

\* Categories whose names differ only in letter case, and views by name
spet == <<"p", "e", "t">>
sPET == <<"P", "E", "T">>

CategoryLists ==
    {<<>>, <<sPet>>, <<sPET>>, <<sBo>>, <<sBo, sFood>>, <<spet, sFood>>}

NextCategory ==
    \/ Initialize
    \/ \E category \in {sFood, sPet, spet} :
          RecordExpense(d20251025, category, sLunch, 10, sAl)
    \/ \E categories \in CategoryLists : ViewExpensesByCategory(categories)

SpecCategory == Init /\ [][NextCategory]_vars

\* Every operation of the data access layer and the business layer, writes and
\* reads, on a store in any state
NextOps ==
    \/ Initialize
    \/ CreateUser(sAl)
    \/ CreateCategory(sPet)
    \/ \E user_id \in {1, UnknownId} :
          InsertExpense(d20251025, 1, sLunch, 10, user_id)
    \/ \E category \in {sFood, sPet}, user_name \in {sAl, sBo} :
          RecordExpense(d20251020, category, sLunch, 10, user_name)
    \/ GetAllUsers
    \/ GetAllCategories
    \/ GetUserByName(sAl)
    \/ GetCategoryByName(sFood)
    \/ FetchExpensesByFilters(NoFilters)
    \/ ViewExpensesByDate(d20251025, <<>>)
    \/ ViewExpensesByAmount(0, 10)
    \/ ViewExpensesByCategory(<<sFood>>)
    \/ \E user_id \in {0, 1} : ViewExpensesByUser(user_id)
    \/ ViewAllExpenses
    \/ CalculateSummary({})

SpecOps == Init /\ [][NextOps]_vars

\* The life of one Database object: calls that return or throw, then the
\* destructor
NextLifetime ==
    \/ alive /\ Initialize
    \/ alive /\ \E name \in {sAl, sBlank} : CreateUser(name)
    \/ alive /\ \E date \in RecordDates, category \in {sFood, sPet},
                   user_name \in {sAl, sBo} :
                   RecordExpense(date, category, sLunch, 10, user_name)
    \/ alive /\ GetAllUsers
    \/ Destroy

SpecLifetime == Init /\ [][NextLifetime]_vars

\* Expense rows made through recordExpense and directly through insertExpense,
\* with dates that are well-formed, malformed, and well-formed but not in the
\* calendar
d20250230 == Date(y2025, <<"0", "2">>, <<"3", "0">>)

RowDates == {d20251025, d20250230, dSlashes}

NextRows ==
    \/ Initialize
    \/ CreateUser(sAl)
    \/ \E date \in RowDates : InsertExpense(date, 1, sLunch, 10, 1)
    \/ \E date \in RowDates : RecordExpense(date, sFood, sLunch, 10, sAl)

SpecRows == Init /\ [][NextRows]_vars

\* Users, and a category, created and looked up by name, with user names as
\* given and padded
sBoPadded == <<"B", "o", " ">>

LookupNames == {sAl, sAlPadded, sBo, sBoPadded, sBlank}

NextUser ==
    \/ Initialize
    \/ \E name \in LookupNames : CreateUser(name)
    \/ \E name \in LookupNames : GetUserByName(name)
    \/ GetAllUsers
    \/ CreateCategory(sPet)
    \/ \E name \in {sFood, sPet} : GetCategoryByName(name)

SpecUser == Init /\ [][NextUser]_vars

\* Expenses recorded while the clock runs, and the views that list them
NextViews ==
    \/ Initialize
    \/ Tick
    \/ \E date \in {d20251020, d20251025}, amount \in {10, 20} :
          RecordExpense(date, sFood, sLunch, amount, sAl)
    \/ ViewExpensesByAmount(10, 20)
    \/ ViewExpensesByCategory(<<sFood>>)
    \/ ViewAllExpenses

SpecViews == Init /\ [][NextViews]_vars

\* One viewExpensesByAmount call on a filled store, with bounds that are
\* negative, zero and positive
AmountBounds == {-5, 0, 10, 15, 20}

NextAmount ==
    /\ ret.op = "Database"
    /\ \E min_amount \in AmountBounds, max_amount \in AmountBounds :
           ViewExpensesByAmount(min_amount, max_amount)

SpecAmount == InitFetch /\ [][NextAmount]_vars

\* recordExpense given titles and user names that are empty, whitespace only,
\* and padded with each kind of whitespace, and amounts on both sides of zero
sCrBoLf == <<"\r", "B", "o", "\n">>

TitleInputs == {<<>>, <<"\t">>, sLunch, sLunchPadded, <<"\n", "x", "\r">>}

NameInputs == {<<>>, sBlank, sAl, sAlPadded, sCrBoLf}

AmountInputs == {-1, 0, 10}

NextRecord ==
    \/ Initialize
    \/ \E title \in TitleInputs, amount \in AmountInputs,
          user_name \in NameInputs :
          RecordExpense(d20251020, sFood, title, amount, user_name)

SpecRecord == Init /\ [][NextRecord]_vars

\* main at its menu loop, on a store it has initialised, with what is left on
\* standard input: up to MaxLines lines, then end of input
MaxLines == 2

MainMenuMax == 9

MenuLines ==
    {<<"0">>, <<"3">>, <<"1", "2">>, <<"x">>, <<>>, <<"3", "x">>,
     <<"-", "1">>, <<" ", "7", " ">>}

InputStreams == UNION {[1..n -> MenuLines] : n \in 0..MaxLines}

InitMenu ==
    /\ opened = Database(TRUE).opened
    /\ closes = Database(TRUE).closes
    /\ alive = TRUE
    /\ schema = TRUE
    /\ Users = {}
    /\ Categories = SeedFrom({}, 1)
    /\ Expenses = {}
    /\ clock = 0
    /\ ret = Ret("initialize", <<>>, Ok(1))
    /\ resolved = {}
    /\ cin \in InputStreams
    /\ pc = "getMenuChoice"

NextMenu ==
    \/ GetMenuChoice(MainMenuMax)
    \/ MainExit
    \/ MainDispatch

\* main is one thread that runs on: a step that can be taken is taken
SpecMenu == InitMenu /\ [][NextMenu]_vars /\ WF_vars(NextMenu)

-----------------------------------------------------------------------------
(* What the claims speak of *)

\* A step that is the call named op (ret holds the last call; a clock tick
\* leaves it alone)
Called(op) == clock' = clock /\ ret'.op = op

Blank(s) == \A i \in 1..Len(s) : s[i] \in Whitespace

NamesOf(rows) == {r.name : r \in rows}

RowsOf(seq) == {seq[i] : i \in 1..Len(seq)}

LeapYear(y) == (y % 4 = 0 /\ y % 100 # 0) \/ y % 400 = 0

DaysInMonth(y, m) ==
    IF m = 2 THEN (IF LeapYear(y) THEN 29 ELSE 28)
    ELSE IF m \in {4, 6, 9, 11} THEN 30
    ELSE 31

\* s reads YYYY-MM-DD
HasDateForm(s) ==
    /\ Len(s) = 10
    /\ s[5] = "-" /\ s[8] = "-"
    /\ \A i \in (1..10) \ {5, 8} : s[i] \in Digits

\* s reads YYYY-MM-DD and names a day of the calendar
IsCalendarDate(s) ==
    /\ HasDateForm(s)
    /\ LET y == 1000 * DigitVal(s[1]) + 100 * DigitVal(s[2])
                + 10 * DigitVal(s[3]) + DigitVal(s[4])
           m == 10 * DigitVal(s[6]) + DigitVal(s[7])
           d == 10 * DigitVal(s[9]) + DigitVal(s[10])
       IN  m \in 1..12 /\ d \in 1..DaysInMonth(y, m)

\* Inputs of recordExpense that pass validation, as the specification words it
ValidInputs(a) ==
    /\ IsCalendarDate(a.date)
    /\ a.amount > 0
    /\ ~Blank(a.title) /\ ~Blank(a.user_name) /\ ~Blank(a.category)

\* The rows an unfiltered fetch returns before and after the step
FetchedBefore ==
    UNION {RowsOf(rows) :
           rows \in fetchExpensesByFilters(Expenses, Categories, Users, NoFilters)}
FetchedAfter ==
    UNION {RowsOf(rows) :
           rows \in fetchExpensesByFilters(Expenses', Categories', Users', NoFilters)}

-----------------------------------------------------------------------------
(* C1 *)

\* C1 (as claimed): on an open, initialised store every recordExpense call
\* whose inputs pass validation, padded titles and names included, returns a
\* positive id, and an unfiltered fetch then holds exactly one row that was not
\* there before, whose date, title, amount, category_name and user_name are the
\* inputs exactly as given.
C1_RoundTripExact ==
    [][(opened /\ schema /\ Called("recordExpense") /\ ValidInputs(ret'.args)) =>
          /\ ret'.status = "ok"
          /\ ret'.value > 0
          /\ Cardinality(FetchedAfter \ FetchedBefore) = 1
          /\ \A r \in FetchedAfter \ FetchedBefore :
                 /\ r.id = ret'.value
                 /\ r.date = ret'.args.date
                 /\ r.title = ret'.args.title
                 /\ r.amount = ret'.args.amount
                 /\ r.category_name = ret'.args.category
                 /\ r.user_name = ret'.args.user_name]_vars

-----------------------------------------------------------------------------
(* C2 *)

\* What C2 asks of one table (Users or Categories) on a valid recordExpense:
\* a name with no row gets exactly one row; a name an earlier successful call
\* was given makes the call succeed, adds no row, and the expense is stored
\* under the id of that first call.
ResolvesOnce(table, name, rows, rowsAfter, idOfNewExpense) ==
    /\ name \notin NamesOf(rows) => Cardinality(rowsAfter \ rows) = 1
    /\ \A h \in resolved :
           (h.table = table /\ h.name = name) =>
               /\ ret'.status = "ok"
               /\ rowsAfter = rows
               /\ idOfNewExpense = h.id

\* C2 (as claimed): identity resolution in recordExpense is idempotent for every
\* name string that validation accepts, for users and for categories.
C2_IdempotentResolution ==
    [][(opened /\ schema /\ Called("recordExpense") /\ ValidInputs(ret'.args)) =>
          LET new == CHOOSE e \in Expenses' : e.id = ret'.value
          IN  /\ ResolvesOnce("Users", ret'.args.user_name, Users, Users',
                              new.user_id)
              /\ ResolvesOnce("Categories", ret'.args.category, Categories,
                              Categories', new.category_id)]_vars

-----------------------------------------------------------------------------
(* C3 *)

\* C3: a recordExpense call given a malformed date, an amount <= 0, or a blank
\* title, user name or category is rejected with a validation error, and a call
\* rejected with a validation error has written nothing: Users, Categories and
\* Expenses are as before the call.
C3_RejectedBeforeAnyWrite ==
    [][Called("recordExpense") =>
          /\ (\/ ~HasDateForm(ret'.args.date)
              \/ ret'.args.amount <= 0
              \/ Blank(ret'.args.title)
              \/ Blank(ret'.args.user_name)
              \/ Blank(ret'.args.category))
                 => ret'.status = "invalid_argument"
          /\ ret'.status = "invalid_argument" => UNCHANGED tables]_vars

\* A call with a new user name and an amount of 0 was rejected on a live store
C3_Witness ==
    /\ opened /\ schema
    /\ ret.op = "recordExpense"
    /\ ret.status = "invalid_argument"
    /\ ret.args.amount <= 0
    /\ ~Blank(ret.args.user_name)
    /\ Users = {}

-----------------------------------------------------------------------------
(* C4 *)

\* A date YYYY-MM-DD and a timestamp YYYY-MM-DD HH:MM:SS as numbers
DateNumber(s) ==
    10000 * (1000 * DigitVal(s[1]) + 100 * DigitVal(s[2]) + 10 * DigitVal(s[3])
             + DigitVal(s[4]))
    + 100 * (10 * DigitVal(s[6]) + DigitVal(s[7]))
    + 10 * DigitVal(s[9]) + DigitVal(s[10])

SecondOfDay(ts) ==
    3600 * (10 * DigitVal(ts[12]) + DigitVal(ts[13]))
    + 60 * (10 * DigitVal(ts[15]) + DigitVal(ts[16]))
    + 10 * DigitVal(ts[18]) + DigitVal(ts[19])

\* C4: fetchExpensesByFilters with every filter absent returns each row of the
\* Expenses table exactly once, dates non-increasing and, among rows of equal
\* date, created_at non-increasing.
C4_FetchAllOrdered ==
    (ret.op = "fetchExpensesByFilters" /\ ret.args = NoFilters) =>
        /\ Len(ret.rows) = Cardinality(Expenses)
        /\ \A e \in Expenses :
               \E i \in 1..Len(ret.rows) :
                   /\ ret.rows[i].id = e.id
                   /\ ret.rows[i].date = e.date
                   /\ ret.rows[i].title = e.title
                   /\ ret.rows[i].amount = e.amount
                   /\ ret.rows[i].created_at = e.created_at
        /\ \A i, j \in 1..Len(ret.rows) :
               i < j =>
                   /\ DateNumber(ret.rows[i].date) >= DateNumber(ret.rows[j].date)
                   /\ ret.rows[i].date = ret.rows[j].date =>
                          SecondOfDay(ret.rows[i].created_at)
                              >= SecondOfDay(ret.rows[j].created_at)

\* An unfiltered fetch returned two rows of one date, recorded a second apart,
\* the row recorded last coming first
C4_Witness ==
    /\ ret.op = "fetchExpensesByFilters"
    /\ ret.args = NoFilters
    /\ Len(ret.rows) = 2
    /\ Cardinality(Expenses) = 2
    /\ ret.rows[1].date = ret.rows[2].date
    /\ ret.rows[1].created_at # ret.rows[2].created_at
    /\ ret.rows[1].id > ret.rows[2].id

-----------------------------------------------------------------------------
(* C5 *)

\* The predicates the supplied filter arguments stand for, on dates and amounts
\* as numbers.  A category list that is supplied but empty stands for no
\* predicate (section 4.2 of the specification; C23).
Supplied(e, f) ==
    /\ \A d \in f.min_date : DateNumber(e.date) >= DateNumber(d)
    /\ \A d \in f.max_date : DateNumber(e.date) <= DateNumber(d)
    /\ \A a \in f.min_amount : ~(e.amount < a)
    /\ \A a \in f.max_amount : ~(e.amount > a)
    /\ \A ids \in f.category_ids :
           Len(ids) > 0 => e.category_id \in {ids[i] : i \in 1..Len(ids)}
    /\ \A u \in f.user_id : e.user_id = u

\* C5: for every combination of present and absent filter arguments,
\* fetchExpensesByFilters returns exactly the expenses for which every supplied
\* predicate holds: bounds are inclusive, filters are AND-ed, an absent filter
\* removes no row.
C5_FiltersConjunctive ==
    ret.op = "fetchExpensesByFilters" =>
        /\ {ret.rows[i].id : i \in 1..Len(ret.rows)}
               = {e.id : e \in {x \in Expenses : Supplied(x, ret.args)}}
        /\ Len(ret.rows) = Cardinality({x \in Expenses : Supplied(x, ret.args)})

\* A fetch with an inclusive date bound, an amount bound and a category list
\* kept one of two expenses, the kept one lying on the date bound
C5_Witness ==
    /\ ret.op = "fetchExpensesByFilters"
    /\ ret.args.min_date # {} /\ ret.args.max_amount # {}
    /\ ret.args.category_ids = {<<8, 1>>}
    /\ Cardinality(Expenses) = 2
    /\ Len(ret.rows) = 1
    /\ {ret.rows[1].date} = ret.args.min_date

-----------------------------------------------------------------------------
(* C6 *)

RECURSIVE TotalOf(_)
TotalOf(list) ==
    IF list = <<>> THEN 0 ELSE Head(list).amount + TotalOf(Tail(list))

\* The list a calculateSummary call was given
GivenList == CHOOSE list \in ret.args : TRUE

\* C6: for any input sequence calculateSummary returns the sum of the amounts
\* as total and the length as count; for the empty sequence total 0, count 0
\* and empty by_category, by_user and user_expenses; and never an error.
C6_TotalAndCount ==
    (ret.op = "calculateSummary" /\ ret.args # {}) =>
        /\ ret.status = "ok"
        /\ ret.summary.total = TotalOf(GivenList)
        /\ ret.summary.count = Len(GivenList)
        /\ GivenList = <<>> =>
               /\ ret.summary.total = 0
               /\ ret.summary.count = 0
               /\ DOMAIN ret.summary.by_category = {}
               /\ DOMAIN ret.summary.by_user = {}
               /\ DOMAIN ret.summary.user_expenses = {}

\* A summary of three expenses of different amounts was computed
C6_Witness ==
    /\ ret.op = "calculateSummary"
    /\ ret.args # {}
    /\ Len(GivenList) = 3
    /\ GivenList[1].amount # GivenList[3].amount
    /\ ret.summary.total > 0

-----------------------------------------------------------------------------
(* C7 *)

RECURSIVE TotalOfUser(_, _)
TotalOfUser(list, u) ==
    IF list = <<>> THEN 0
    ELSE (IF Head(list).user_name = u THEN Head(list).amount ELSE 0)
         + TotalOfUser(Tail(list), u)

RECURSIVE SumOfValues(_, _)
SumOfValues(map, keys) ==
    IF keys = {} THEN 0
    ELSE LET k == CHOOSE x \in keys : TRUE
         IN  map[k] + SumOfValues(map, keys \ {k})

\* C7: for any non-empty input sequence, by_user maps each user name in the
\* input to the sum of the amounts of that user's expenses, has no other key,
\* and its values add up to total.
C7_ByUserPartition ==
    (ret.op = "calculateSummary" /\ ret.args # {} /\ GivenList # <<>>) =>
        /\ DOMAIN ret.summary.by_user
               = {GivenList[i].user_name : i \in 1..Len(GivenList)}
        /\ \A u \in DOMAIN ret.summary.by_user :
               ret.summary.by_user[u] = TotalOfUser(GivenList, u)
        /\ SumOfValues(ret.summary.by_user, DOMAIN ret.summary.by_user)
               = ret.summary.total

\* A summary over two users, one of them with two expenses, was computed
C7_Witness ==
    /\ ret.op = "calculateSummary"
    /\ ret.args # {}
    /\ Len(GivenList) = 3
    /\ GivenList[1].user_name = GivenList[3].user_name
    /\ GivenList[1].user_name # GivenList[2].user_name
    /\ Cardinality(DOMAIN ret.summary.by_user) = 2

-----------------------------------------------------------------------------
(* C8 *)

UnknownParent(a) ==
    a.category_id \notin Ids(Categories) \/ a.user_id \notin Ids(Users)

\* C8 (as claimed): insertExpense with a category_id or user_id that names no
\* row fails with a store-level error, not a validation error, and leaves the
\* Expenses table unchanged.
C8_StoreErrorAlways ==
    [][(Called("insertExpense") /\ UnknownParent(ret'.args)) =>
          /\ ret'.status = "runtime_error"
          /\ Expenses' = Expenses]_vars

\* C8 (amended): insertExpense with a category_id or user_id that names no row
\* fails and leaves the Expenses table unchanged; the error is store-level when
\* the title is not blank and the amount is positive, and on an open store it
\* is the validation error of the title or amount otherwise.
C8_FailsWithoutRow ==
    [][(Called("insertExpense") /\ UnknownParent(ret'.args)) =>
          /\ ret'.status # "ok"
          /\ Expenses' = Expenses
          /\ (~Blank(ret'.args.title) /\ ret'.args.amount > 0)
                 => ret'.status = "runtime_error"
          /\ (opened /\ (Blank(ret'.args.title) \/ ret'.args.amount <= 0))
                 => ret'.status = "invalid_argument"]_vars

\* The store refused an expense whose category_id names no category
C8_Witness ==
    /\ ret.op = "insertExpense"
    /\ ret.status = "runtime_error"
    /\ ret.what = "Failed to insert expense"
    /\ ret.args.category_id \notin Ids(Categories)
    /\ ret.args.user_id \in Ids(Users)

-----------------------------------------------------------------------------
(* C9 *)

\* C9 (as claimed): validateDate(s) is true exactly when s has the form
\* YYYY-MM-DD and names a day of the calendar (month 1..12, day within the
\* month's length, February having 29 days in leap years and 28 otherwise).
C9_CalendarDate ==
    ret.op = "validateDate" => (ret.value = 1 <=> IsCalendarDate(ret.args))

-----------------------------------------------------------------------------
(* C10 *)

UniqueNames(rows) == \A a, b \in rows : a.name = b.name => a = b

\* createUser / createCategory: a name that exists is refused, a refused call
\* adds no row, and a call that returns has added one row and returns its id.
CreateOutcome(rows, rowsAfter) ==
    /\ ret'.args.name \in NamesOf(rows) => ret'.status # "ok"
    /\ ret'.status # "ok" => rowsAfter = rows
    /\ ret'.status = "ok" =>
           \E row \in rowsAfter :
               /\ row.id = ret'.value
               /\ row \notin rows
               /\ rowsAfter = rows \cup {row}

\* C10: no two User rows and no two Category rows ever share a name; createUser
\* and createCategory refuse a name that exists and add no row, and when they
\* return, they return the id of the one row they added.
C10_UniqueNames ==
    [][/\ UniqueNames(Users') /\ UniqueNames(Categories')
       /\ Called("createUser") => CreateOutcome(Users, Users')
       /\ Called("createCategory") => CreateOutcome(Categories, Categories')]_vars

\* createUser was refused for a name that is in the table
C10_Witness ==
    /\ ret.op = "createUser"
    /\ ret.status = "runtime_error"
    /\ ret.what = "Failed to insert user"
    /\ ret.args.name \in NamesOf(Users)
    /\ Cardinality(Categories) > Len(default_categories)

-----------------------------------------------------------------------------
(* C11 *)

NonBlankNames(rows) == \A r \in rows : ~Blank(r.name)

\* C11 (as claimed): on an open, initialised store createUser and
\* createCategory, given an empty or whitespace-only name, fail with the
\* empty-name error and add no row; and no stored User or Category name is
\* blank.
C11_BlankNameRefused ==
    [][/\ (opened /\ schema
              /\ (Called("createUser") \/ Called("createCategory"))
              /\ Blank(ret'.args.name))
          => (ret'.status = "invalid_argument" /\ UNCHANGED tables)
       /\ (opened /\ schema)
          => (NonBlankNames(Users') /\ NonBlankNames(Categories'))]_vars

-----------------------------------------------------------------------------
(* C12 *)

DefaultNames == {default_categories[i] : i \in 1..Len(default_categories)}

\* C12: on an open connection every initialize call, on an empty store or on
\* one that holds users, categories and expenses, succeeds, leaves Users and
\* Expenses unchanged, keeps every Category row, leaves exactly one Category row
\* for each of the seven default names, and changes nothing at all when the
\* store was initialised before.
C12_InitializeIdempotent ==
    [][(opened /\ Called("initialize")) =>
          /\ ret'.status = "ok" /\ ret'.value = 1
          /\ Users' = Users
          /\ Expenses' = Expenses
          /\ Categories \subseteq Categories'
          /\ Cardinality(DefaultNames) = 7
          /\ \A n \in DefaultNames :
                 Cardinality({c \in Categories' : c.name = n}) = 1
          /\ schema => Categories' = Categories]_vars

\* initialize was called again on a store that holds a user, an expense and a
\* category beyond the default ones
C12_Witness ==
    /\ opened
    /\ ret.op = "initialize"
    /\ ret.value = 1
    /\ Users # {}
    /\ Expenses # {}
    /\ Cardinality(Categories) > Len(default_categories)

-----------------------------------------------------------------------------
(* C13 *)

\* a and b are equal up to the case of their letters
EqualIgnoringCase(a, b) ==
    /\ Len(a) = Len(b)
    /\ \A i \in 1..Len(a) : ToLowerChar(a[i]) = ToLowerChar(b[i])

CategoryNameOf(e) == (CHOOSE c \in Categories : c.id = e.category_id).name

\* The expenses whose category name equals one of the names, ignoring case
InNamedCategories(names) ==
    {e \in Expenses :
        \E i \in 1..Len(names) : EqualIgnoringCase(CategoryNameOf(e), names[i])}

\* C13 (as claimed): on an open, initialised store viewExpensesByCategory
\* returns exactly the expenses whose category name equals, ignoring letter
\* case, one of the given names (none when no name matches or none is given),
\* also when categories have names that differ only in letter case.
C13_ByCategoryIgnoringCase ==
    (opened /\ schema /\ ret.op = "viewExpensesByCategory") =>
        /\ ret.status = "ok"
        /\ {ret.rows[i].id : i \in 1..Len(ret.rows)}
               = {e.id : e \in InNamedCategories(ret.args)}
        /\ Len(ret.rows) = Cardinality(InNamedCategories(ret.args))

-----------------------------------------------------------------------------
(* C14 *)

\* The record-store and aggregation operations that read
ReadOps ==
    {"getAllUsers", "getAllCategories", "getUserByName", "getCategoryByName",
     "fetchExpensesByFilters", "viewExpensesByDate", "viewExpensesByAmount",
     "viewExpensesByCategory", "viewExpensesByUser", "viewAllExpenses",
     "calculateSummary"}

\* C14 (as claimed): a read operation that cannot be carried out, because the
\* handle holds no connection or the statement cannot be prepared (the tables
\* do not exist), gives its caller an error.
C14_NoErrorSwallowed ==
    (ret.op \in ReadOps /\ (~opened \/ ~schema)) => ret.status # "ok"

-----------------------------------------------------------------------------
(* C15 *)

\* C15 (as claimed): in every result of fetchExpensesByFilters, of two expenses
\* of the same date the one created later (the one with the larger id) comes
\* before the one created earlier, also when both were inserted within one
\* clock second.
C15_LaterCreatedFirst ==
    ret.op = "fetchExpensesByFilters" =>
        \A i, j \in 1..Len(ret.rows) :
            (i < j /\ ret.rows[i].date = ret.rows[j].date)
                => ret.rows[i].id > ret.rows[j].id

-----------------------------------------------------------------------------
(* C16 *)

\* C16: the connection of a Database object is released exactly once over the
\* object's lifetime: never twice, not while the object lives with an open
\* connection, once when the object is gone, whether the last call returned or
\* threw; and when opening failed the release is the constructor's,
\* getConnection() is null from then on and the destructor releases nothing.
C16_ReleasedExactlyOnce ==
    /\ closes <= 1
    /\ (alive /\ opened) => closes = 0
    /\ (alive /\ ~opened) => closes = 1
    /\ ~alive => (closes = 1 /\ ~opened)

\* A Database whose connection opened was destroyed after a call threw
C16_Witness ==
    /\ ~alive
    /\ schema
    /\ closes = 1
    /\ ret.op = "recordExpense"
    /\ ret.status = "invalid_argument"

-----------------------------------------------------------------------------
(* C17 *)

\* C17: in every state reachable by initialize, createUser, createCategory,
\* insertExpense and recordExpense calls, successful or failing, each Expense
\* row's category_id is the id of a Category row and its user_id is the id of a
\* User row.
C17_ReferentialIntegrity ==
    \A e \in Expenses :
        /\ \E c \in Categories : c.id = e.category_id
        /\ \E u \in Users : u.id = e.user_id

\* insertExpense stored a second expense under ids that name rows
C17_Witness ==
    /\ ret.op = "insertExpense"
    /\ ret.status = "ok"
    /\ Cardinality(Expenses) = 2
    /\ ret.args.category_id \in Ids(Categories)
    /\ ret.args.user_id \in Ids(Users)

-----------------------------------------------------------------------------
(* C18 *)

\* C18 (as claimed): in every reachable state the date of every Expense row has
\* the form YYYY-MM-DD and names a day of the calendar, whether recordExpense
\* or insertExpense made the row.
C18_DatesAreCalendarDates == \A e \in Expenses : IsCalendarDate(e.date)

-----------------------------------------------------------------------------
(* C19 *)

\* The amount is not positive or the title is empty or whitespace only
BadAmountOrTitle(a) == a.amount <= 0 \/ Blank(a.title)

\* C19: every Expense row has amount > 0 and a title that is not blank;
\* insertExpense, on a handle that holds a connection, and recordExpense reject
\* an amount <= 0 or a blank title with a validation error, and no such call
\* inserts anything.
C19_PositiveAmountNonBlankTitle ==
    [][/\ \A e \in Expenses' : e.amount > 0 /\ ~Blank(e.title)
       /\ (Called("insertExpense") /\ BadAmountOrTitle(ret'.args)) =>
              /\ ret'.status # "ok"
              /\ opened => ret'.status = "invalid_argument"
              /\ UNCHANGED tables
       /\ (Called("recordExpense") /\ BadAmountOrTitle(ret'.args)) =>
              /\ ret'.status = "invalid_argument"
              /\ UNCHANGED tables]_vars

\* insertExpense, given ids that name rows and an amount of 0, was refused with
\* the amount's validation error on a store that holds an expense
C19_Witness ==
    /\ ret.op = "insertExpense"
    /\ ret.status = "invalid_argument"
    /\ ret.what = "Expense amount must be positive"
    /\ ret.args.category_id \in Ids(Categories)
    /\ ret.args.user_id \in Ids(Users)
    /\ Expenses # {}

-----------------------------------------------------------------------------
(* C20 *)

\* The rows of a table that a step has added
Added(before, after) == after \ before

\* No row of the three tables is removed or altered by the step
RowsKept ==
    /\ Users \subseteq Users'
    /\ Categories \subseteq Categories'
    /\ Expenses \subseteq Expenses'

\* A read operation leaves the three tables as they were
ReadsAddNone == (clock' = clock /\ ret'.op \in ReadOps) => UNCHANGED tables

\* C20 (as claimed): a row once present is never removed or changed; every
\* single operation adds at most one User, at most one Category and at most
\* one Expense; a read operation adds none.
C20_AtMostOneOfEach ==
    [][/\ RowsKept
       /\ Cardinality(Added(Users, Users')) <= 1
       /\ Cardinality(Added(Categories, Categories')) <= 1
       /\ Cardinality(Added(Expenses, Expenses')) <= 1
       /\ ReadsAddNone]_vars

\* The default names initialize has yet to add: those no Category row bears,
\* on a handle that holds a connection
MissingDefaults ==
    IF opened THEN DefaultNames \ NamesOf(Categories) ELSE {}

\* C20 (amended): a row once present is never removed or changed; initialize
\* adds only Category rows, one for each default name not yet present (none
\* on a handle without a connection); every other operation adds at most one
\* User, at most one Category and at most one Expense; a read operation adds
\* none.
C20_RowsOnlyAdded ==
    [][/\ RowsKept
       /\ Cardinality(Added(Users, Users')) <= 1
       /\ Cardinality(Added(Expenses, Expenses')) <= 1
       /\ IF Called("initialize")
          THEN /\ Users' = Users /\ Expenses' = Expenses
               /\ Cardinality(Added(Categories, Categories')) =
                      Cardinality(MissingDefaults)
               /\ NamesOf(Added(Categories, Categories')) = MissingDefaults
          ELSE Cardinality(Added(Categories, Categories')) <= 1
       /\ ReadsAddNone]_vars

\* recordExpense succeeded for a user and a category that only it or an
\* earlier recordExpense can have made the store's only user, its eighth
\* category's name and its only expense
C20_Witness ==
    /\ ret.op = "recordExpense"
    /\ ret.status = "ok"
    /\ ret.args.user_name = sBo
    /\ ret.args.category = sPet
    /\ NamesOf(Users) = {sBo}
    /\ Cardinality(Categories) = Len(default_categories) + 1
    /\ Cardinality(Expenses) = 1
    /\ \E e \in Expenses : e.id = ret.value

-----------------------------------------------------------------------------
(* C21 *)

\* The expenses of list that bear the user name u, in the order of list
OfUser(list, u) ==
    LET Bears(e) == e.user_name = u IN SelectSeq(list, Bears)

RECURSIVE SumOfLengths(_, _)
SumOfLengths(map, keys) ==
    IF keys = {} THEN 0
    ELSE LET k == CHOOSE x \in keys : TRUE
         IN  Len(map[k]) + SumOfLengths(map, keys \ {k})

\* C21: for any input sequence and any user name u, user_expenses[u] is the
\* subsequence of the input with user_name = u, in the input's order;
\* user_expenses has exactly the keys of by_user, and the lengths of its lists
\* add up to count.
C21_UserExpensesSubsequence ==
    (ret.op = "calculateSummary" /\ ret.args # {}) =>
        /\ DOMAIN ret.summary.user_expenses
               = {GivenList[i].user_name : i \in 1..Len(GivenList)}
        /\ \A u \in DOMAIN ret.summary.user_expenses :
               ret.summary.user_expenses[u] = OfUser(GivenList, u)
        /\ DOMAIN ret.summary.user_expenses = DOMAIN ret.summary.by_user
        /\ SumOfLengths(ret.summary.user_expenses,
                        DOMAIN ret.summary.user_expenses) = ret.summary.count

\* A summary was computed of three expenses, the first and the third of one
\* user and of different amounts, the second of another user
C21_Witness ==
    /\ ret.op = "calculateSummary"
    /\ ret.args # {}
    /\ Len(GivenList) = 3
    /\ GivenList[1].user_name = GivenList[3].user_name
    /\ GivenList[1].user_name # GivenList[2].user_name
    /\ GivenList[1].amount # GivenList[3].amount
    /\ Len(ret.summary.user_expenses[GivenList[1].user_name]) = 2
    /\ ret.summary.user_expenses[GivenList[1].user_name][1] = GivenList[1]

-----------------------------------------------------------------------------
(* C22 *)

\* The ids of the expenses a summary lists under its users
ListedIds(summary) ==
    UNION {{summary.user_expenses[u][i].id :
               i \in 1..Len(summary.user_expenses[u])} :
           u \in DOMAIN summary.user_expenses}

\* C22: calculateSummary called without a list returns, whatever the store
\* holds, the summary of an unfiltered fetch from the store as it is then;
\* nothing is cached: on a store with its tables the summary counts and lists
\* every expense inserted so far.
C22_SummaryOfUnfilteredFetch ==
    (ret.op = "calculateSummary" /\ ret.args = {}) =>
        /\ \E rows \in fetchExpensesByFilters(Expenses, Categories, Users,
                                              NoFilters) :
               ret.summary = calculateSummary(rows)
        /\ (opened /\ schema) =>
               /\ ret.summary.count = Cardinality(Expenses)
               /\ ListedIds(ret.summary) = Ids(Expenses)

\* calculateSummary was called without a list on a store that holds two
\* expenses of two users
C22_Witness ==
    /\ ret.op = "calculateSummary"
    /\ ret.args = {}
    /\ Cardinality(Expenses) = 2
    /\ Cardinality({e.user_id : e \in Expenses}) = 2
    /\ ret.summary.count = 2

-----------------------------------------------------------------------------
(* C23 *)

\* The ids of the rows of a fetched vector
FetchedIds(rows) == {rows[i].id : i \in 1..Len(rows)}

\* The filter f without its category list
WithoutCategoryIds(f) == [f EXCEPT !.category_ids = {}]

\* C23: fetchExpensesByFilters with a category-id list that is present but
\* empty returns the rows it returns with the list absent; with a non-empty
\* list none of whose ids any expense uses it returns no row.
C23_EmptyCategoryListIsNoFilter ==
    ret.op = "fetchExpensesByFilters" =>
        /\ ret.args.category_ids = {<<>>} =>
               \A rows \in fetchExpensesByFilters(Expenses, Categories, Users,
                               WithoutCategoryIds(ret.args)) :
                   /\ FetchedIds(ret.rows) = FetchedIds(rows)
                   /\ Len(ret.rows) = Len(rows)
        /\ \A ids \in ret.args.category_ids :
               (/\ Len(ids) > 0
                /\ \A e \in Expenses, i \in 1..Len(ids) : e.category_id # ids[i])
               => ret.rows = <<>>

\* A fetch whose only argument was an empty category-id list returned both
\* expenses of the store, which are of different categories
C23_Witness ==
    /\ ret.op = "fetchExpensesByFilters"
    /\ ret.args = [NoFilters EXCEPT !.category_ids = {<<>>}]
    /\ Cardinality({e.category_id : e \in Expenses}) = 2
    /\ Len(ret.rows) = 2

-----------------------------------------------------------------------------
(* C24 *)

\* C24 (as claimed): getUserByName called with the string a successful
\* createUser was just given returns a present record that has the id
\* createUser returned and that string as its name; getUserByName of a name no
\* User row bears returns the absent value and no error.
C24_CreatedUserIsFound ==
    [][Called("getUserByName") =>
          /\ (/\ ret.op = "createUser"
              /\ ret.status = "ok"
              /\ ret'.args.name = ret.args.name)
             => /\ Len(ret'.rows) = 1
                /\ ret'.rows[1].id = ret.value
                /\ ret'.rows[1].name = ret.args.name
          /\ ret'.args.name \notin NamesOf(Users)
             => /\ ret'.rows = <<>>
                /\ ret'.status = "ok"]_vars

-----------------------------------------------------------------------------
(* C25 *)

ViewOps == {"viewExpensesByAmount", "viewExpensesByCategory", "viewAllExpenses"}

-----------------------------------------------------------------------------
(* C26 *)

\* The expenses within the bounds, a bound that is not positive being no bound
WithinAmounts(min_amount, max_amount) ==
    {e \in Expenses :
        /\ min_amount > 0 => e.amount >= min_amount
        /\ max_amount > 0 => e.amount <= max_amount}

\* C26: viewExpensesByAmount(min_amount, max_amount) returns exactly the
\* expenses with min_amount <= amount <= max_amount when both bounds are
\* positive; a bound that is zero or negative imposes no constraint, so (0, 0)
\* returns every expense and (m, 0) with m > 0 every expense with amount >= m.
C26_AmountBounds ==
    ret.op = "viewExpensesByAmount" =>
        LET min_amount == ret.args.min_amount
            max_amount == ret.args.max_amount
        IN  /\ FetchedIds(ret.rows)
                   = Ids(WithinAmounts(min_amount, max_amount))
            /\ Len(ret.rows)
                   = Cardinality(WithinAmounts(min_amount, max_amount))
            /\ (min_amount = 0 /\ max_amount = 0) =>
                   FetchedIds(ret.rows) = Ids(Expenses)
            /\ (min_amount > 0 /\ max_amount = 0) =>
                   FetchedIds(ret.rows)
                       = Ids({e \in Expenses : e.amount >= min_amount})

\* viewExpensesByAmount(15, 0) returned, of an expense of 10 and one of 20,
\* the one of 20
C26_Witness ==
    /\ ret.op = "viewExpensesByAmount"
    /\ ret.args.min_amount = 15
    /\ ret.args.max_amount = 0
    /\ {e.amount : e \in Expenses} = {10, 20}
    /\ Len(ret.rows) = 1
    /\ ret.rows[1].amount = 20

-----------------------------------------------------------------------------
(* C27 *)

FetchOps ==
    {"fetchExpensesByFilters", "viewExpensesByDate", "viewExpensesByAmount",
     "viewExpensesByCategory", "viewExpensesByUser", "viewAllExpenses"}

\* C27 (as claimed): every Expense value that fetchExpensesByFilters or a view
\* returns carries the category_id and user_id stored at insertion, which are
\* the id of the Category row named category_name and the id of the User row
\* named user_name.
C27_FetchedCarriesIds ==
    ret.op \in FetchOps =>
        \A i \in 1..Len(ret.rows) :
            /\ \E e \in Expenses :
                   /\ e.id = ret.rows[i].id
                   /\ e.category_id = ret.rows[i].category_id
                   /\ e.user_id = ret.rows[i].user_id
            /\ \E c \in Categories :
                   /\ c.name = ret.rows[i].category_name
                   /\ c.id = ret.rows[i].category_id
            /\ \E u \in Users :
                   /\ u.name = ret.rows[i].user_name
                   /\ u.id = ret.rows[i].user_id

-----------------------------------------------------------------------------
(* C28 *)

\* C28: a recordExpense call that fails, in validation or by a rejection of
\* the store, leaves Users, Categories and Expenses as they were before the
\* call: no User or Category row is left behind by a call that did not insert
\* its expense.
C28_FailureWritesNothing ==
    [][(Called("recordExpense") /\ ret'.status # "ok") => UNCHANGED tables]_vars


\* A recordExpense call that passed validation was refused by the store, which
\* holds a user, and left the tables as they were
C28_Witness ==
    /\ ret.op = "recordExpense"
    /\ ret.status = "runtime_error"
    /\ ret.cause = "runtime_error"
    /\ ret.args.category = sPet
    /\ Users # {}
    /\ sPet \notin NamesOf(Categories)

-----------------------------------------------------------------------------
(* C29 *)

\* title, amount and user_name pass the checks of Models::insertExpense and
\* Models::createUser
PassesDataAccessChecks(a) ==
    /\ EraseTrim(a.title) # <<>>
    /\ ~(a.amount <= 0)
    /\ EraseTrim(a.user_name) # <<>>

\* The arguments pass the five checks recordExpense starts with
PassesValidation(a) ==
    recordExpenseValidation(a.date, a.category, a.title, a.amount,
                            a.user_name) = ""

\* C29: every title, amount and user_name that passes recordExpense's
\* validation passes insertExpense's blank-title and amount <= 0 checks and
\* createUser's blank-name check; a recordExpense call that fails after its
\* validation succeeded fails with a runtime_error that wraps a store-level
\* runtime_error, never a validation error.
C29_ValidationSubsumes ==
    [][(Called("recordExpense") /\ PassesValidation(ret'.args)) =>
           /\ PassesDataAccessChecks(ret'.args)
           /\ ret'.status # "ok" =>
                  /\ ret'.status = "runtime_error"
                  /\ ret'.cause = "runtime_error"]_vars

\* A recordExpense call with a padded title and a user name padded with a
\* carriage return and a newline passed validation and was refused by the
\* store, which holds the user under the trimmed name
C29_Witness ==
    /\ ret.op = "recordExpense"
    /\ ret.args.user_name = sCrBoLf
    /\ ret.args.title = sLunchPadded
    /\ ret.args.amount = 10
    /\ ret.status = "runtime_error"
    /\ ret.what = "Failed to create user"
    /\ sBo \in NamesOf(Users)

-----------------------------------------------------------------------------
(* C30 *)

\* C30 (as claimed): whatever is on standard input, end of input before a
\* valid choice included, getMenuChoice eventually returns, with an integer in
\* 0..max_choice; and main leaves its loop once choice 0 is read.
C30_MenuChoiceReturns ==
    /\ [](pc = "main" => ret.value \in 0..MainMenuMax)
    /\ (pc = "getMenuChoice") ~> (pc = "main")
    /\ (pc = "main" /\ ret.value = 0) ~> (pc = "exit")

====
